---- MODULE Spec2Model ----
(***************************************************************************)
(* State-machine model of the Saxobank client (src/src/index.ts).          *)
(*                                                                         *)
(* One client call runs at a time.  A call is split at its awaits: the     *)
(* action that starts it runs the code up to the first request, and one    *)
(* action per awaited response runs the code from that await to the next   *)
(* request or to the call's settlement.  The provider is unconstrained:    *)
(* every response is drawn from a bounded set of transport outcomes.       *)
(*                                                                         *)
(* Encoding of JavaScript values                                           *)
(*   - a JSON object is a record; a property the object lacks is a field   *)
(*     outside the record's DOMAIN; reading it gives Undefined             *)
(*   - JSON null is the record Null                                        *)
(*   - an optional number (price?, stop_limit?, quantity?) is a sequence   *)
(*     of length 0 (absent) or 1 (the number)                              *)
(*   - a thrown Error is a record with a msg field (the message text       *)
(*     without its interpolated parts, which are separate fields)          *)
(***************************************************************************)
EXTENDS Integers, Sequences, FiniteSets, TLC

VARIABLES
    op,         \* the client operation in progress or last settled
    pc,         \* position inside the operation's code
    args,       \* the arguments of the call
    reqs,       \* requests issued by the call so far, in order
    resps,      \* transport outcomes the call has received, in order
    response,   \* createOrder: the classified body of the order-creation POST;
                \* createClient: the token
    currentOrder, \* modifyOrder: the order found in the order list
    account,    \* the provider's record of the Account the call was made on
    result,     \* settlement of the call
    provider,   \* the provider's side: its open orders and the ids it has retired
    inflight    \* the provider's answer to the call's pending request, if written

\* the environment of the client
env == <<provider, inflight>>

vars == <<op, pc, args, account, reqs, resps, response, currentOrder, result,
          provider, inflight>>

----------------------------------------------------------------------------
(* Bounds of the model *)

MaxPrice == 1       \* prices and stop limits range over 0..MaxPrice
MaxData == 2        \* longest Data list of a provider response

----------------------------------------------------------------------------
(* JavaScript values *)

Undefined == "undefined"
Null == [jsonNull |-> TRUE]
None == <<>>
Some(x) == <<x>>
NoValue == [none |-> TRUE]

Field(r, f) == IF f \in DOMAIN r THEN r[f] ELSE Undefined

\* truthiness of an optional number: undefined and 0 are falsy
TruthyNum(n) == n # None /\ n[1] # 0
\* truthiness of an optional string property of object b
TruthyStr(b, f) == f \in DOMAIN b /\ b[f] # ""

OptNums == {None} \cup {Some(n) : n \in 0..MaxPrice}

SeqsUpTo(S, n) == UNION {[1..k -> S] : k \in 0..n}

----------------------------------------------------------------------------
(* Session established by an earlier createClient: the calls on the client *)
(* and on its accounts use this identity                                   *)

client_id == "C1"
client_key == "K1"
AccountKeys == {"AK1"}

\* the provider's records of the client's accounts: the identifier and the
\* key of an account are different strings
RawAccounts ==
    {[AccountId |-> "A1", AccountKey |-> k, Active |-> TRUE, Currency |-> "EUR"] :
        k \in AccountKeys}

\* the argument an Account's method hands to the client function it wraps
BoundKey(method, acc) ==
    IF method = "getPositions" THEN acc.AccountId ELSE acc.AccountKey
OrderIds == {"o1", "o2"}
TEST_UIC == 21

----------------------------------------------------------------------------
(* Transport outcomes.  net = "error": fetch itself rejects.  Otherwise    *)
(* ok is response.ok (2xx) and body is the parsed JSON, or NotJson when    *)
(* response.json() throws (empty or non-JSON body).                        *)

NotJson == [notJson |-> TRUE]
NetworkError == [net |-> "error"]
Http(ok, body) == [net |-> "response", ok |-> ok, body |-> body]

ErrorCodeBody == [ErrorCode |-> "X", Message |-> "bad", ModelState |-> "ms"]
ErrorInfoBody == [ErrorInfo |-> [ErrorCode |-> "Y", Message |-> "worse"]]
OtherBody == [Other |-> "x"]

\* a 2xx response carries any of the endpoint's bodies; a non-2xx response
\* carries an error payload, an unrelated object or no JSON at all
Outcomes(bodies) ==
    {NetworkError}
    \cup {Http(TRUE, b) : b \in bodies \cup {NotJson}}
    \cup {Http(FALSE, b) : b \in {ErrorCodeBody, OtherBody, NotJson}}

\* request(): throws on a network error, on a non-2xx status and on an
\* unparsable body; otherwise returns the parsed body
RequestThrows(r) == r.net = "error" \/ ~r.ok \/ r.body = NotJson

RequestError(r) ==
    IF r.net = "error" THEN [msg |-> "fetch failed"]
    ELSE IF ~r.ok THEN [msg |-> "API request failed"]
    ELSE [msg |-> "invalid json"]

\* a bare fetch(...).then(r => r.json()): the status is not looked at
FetchJsonThrows(r) == r.net = "error" \/ r.body = NotJson

FetchJsonError(r) ==
    IF r.net = "error" THEN [msg |-> "fetch failed"] ELSE [msg |-> "invalid json"]

\* handleError(): classification of the two provider error shapes
HandleErrorThrows(b) == TruthyStr(b, "ErrorCode") \/ "ErrorInfo" \in DOMAIN b

HandleErrorError(b) ==
    IF TruthyStr(b, "ErrorCode")
    THEN [msg |-> "API request failed with error", code |-> b.ErrorCode,
          message |-> Field(b, "Message"), ModelState |-> Field(b, "ModelState")]
    ELSE [msg |-> "API request failed with error",
          code |-> Field(b.ErrorInfo, "ErrorCode"),
          message |-> Field(b.ErrorInfo, "Message")]

\* the error a read's try block throws: from request(), from handleError(),
\* or the TypeError of the mapping callback
TryError(r) ==
    IF RequestThrows(r) THEN RequestError(r)
    ELSE IF HandleErrorThrows(r.body) THEN HandleErrorError(r.body)
    ELSE [msg |-> "TypeError: Cannot read properties of undefined"]

Resolved(v) == [kind |-> "resolved", value |-> v]
Rejected(e) == [kind |-> "rejected", error |-> e]
Pending == [kind |-> "pending"]

Get(endpoint, query) == [method |-> "GET", endpoint |-> endpoint, query |-> query]

----------------------------------------------------------------------------
(* getPositions: normalization of the positions response *)

PositionBases ==
    {[Uic |-> TEST_UIC, AccountId |-> "A1", SourceOrderId |-> o, Status |-> "Open",
      Amount |-> 1, OpenPrice |-> 1] : o \in OrderIds}
    \cup {[Uic |-> TEST_UIC, AccountId |-> "A1", Status |-> "Open",
           Amount |-> 1, OpenPrice |-> 1]}

PositionView0 == [CurrentPrice |-> 1, ExposureCurrency |-> "EUR"]

RawPositions ==
    {[PositionId |-> "p1", PositionBase |-> b, PositionView |-> PositionView0] :
        b \in PositionBases}
    \cup {[PositionId |-> "p2", PositionBase |-> b, PositionView |-> PositionView0] :
        b \in {c \in PositionBases : Field(c, "SourceOrderId") = "o1"}}
    \cup {[PositionId |-> "p3", PositionView |-> PositionView0]}

PositionsBodies ==
    {[Data |-> d] : d \in SeqsUpTo(RawPositions, MaxData)}
    \cup {Null, OtherBody, ErrorCodeBody, ErrorInfoBody}

\* the mapping callback reads PositionBase.Uic and PositionView.CurrentPrice:
\* it throws a TypeError on a record without PositionBase or PositionView
PositionMapThrows(raw) ==
    "PositionBase" \notin DOMAIN raw \/ "PositionView" \notin DOMAIN raw

MapPosition(raw) ==
    [id |-> Field(raw, "PositionId"),
     uic |-> Field(raw.PositionBase, "Uic"),
     client_id |-> client_id,
     account_id |-> Field(raw.PositionBase, "AccountId"),
     order_id |-> Field(raw.PositionBase, "SourceOrderId"),
     status |-> Field(raw.PositionBase, "Status"),
     quantity |-> Field(raw.PositionBase, "Amount"),
     price |-> Field(raw.PositionBase, "OpenPrice"),
     value |-> Field(raw.PositionView, "CurrentPrice"),
     currency |-> Field(raw.PositionView, "ExposureCurrency"),
     INTERNAL |-> raw]

\* the try block of getPositions throws: request(), handleError() or the map
GetPositionsThrows(r) ==
    \/ RequestThrows(r)
    \/ HandleErrorThrows(r.body)
    \/ /\ "Data" \in DOMAIN r.body
       /\ \E i \in DOMAIN r.body.Data : PositionMapThrows(r.body.Data[i])

\* result?.Data?.map(...) || []
MappedPositions(r) ==
    IF "Data" \in DOMAIN r.body
    THEN [i \in DOMAIN r.body.Data |-> MapPosition(r.body.Data[i])]
    ELSE <<>>

\* variant: getPositions without its try/catch (as in the legacy mod.ts)
GetPositions_noCatch(r) ==
    IF GetPositionsThrows(r) THEN Rejected(TryError(r)) ELSE Resolved(MappedPositions(r))

\* the settlement of getPositions for a transport outcome r: the catch block
\* turns every throw of the try block into an empty list
GetPositions(r) ==
    IF GetPositionsThrows(r) THEN Resolved(<<>>) ELSE Resolved(MappedPositions(r))

PositionsRequest(account_key) ==
    IF account_key # None
    THEN Get("/port/v1/positions", [ClientKey |-> client_key, AccountKey |-> account_key[1]])
    ELSE Get("/port/v1/positions/me", NoValue)

----------------------------------------------------------------------------
(* createOrder *)

Quantities == {1, 2}

OrderTypes == {"market", "limit", "stop", "stop_limit", "bogus"}

\* OrderOptions: every property is optional
OptionsSet ==
    {[assetType |-> None, duration |-> None, externalReference |-> None,
      manualOrder |-> None, isForceOpen |-> None,
      trailingStopDistanceToMarket |-> None, trailingStopStep |-> None],
     [assetType |-> Some("Stock"), duration |-> Some([durationType |-> "DayOrder"]),
      externalReference |-> Some("ref"), manualOrder |-> Some(FALSE),
      isForceOpen |-> Some(TRUE), trailingStopDistanceToMarket |-> Some(1),
      trailingStopStep |-> Some(0)]}

CreateOrderArgs ==
    [account_key : AccountKeys, type : {"buy", "sell"}, uic : {TEST_UIC},
     quantity : Quantities, order_type : OrderTypes, price : OptNums,
     stop_limit : OptNums, options : OptionsSet]

\* variant: the check of the order type against the known types is missing
ValidationThrows_noTypeCheck(a) ==
    \/ a.order_type = "stop" /\ ~TruthyNum(a.stop_limit)
    \/ a.order_type = "market" /\ (TruthyNum(a.price) \/ TruthyNum(a.stop_limit))
    \/ a.order_type \in {"limit", "stop_limit"} /\ ~TruthyNum(a.price)

\* the four pre-submission checks, in the order of the code
ValidationThrows(a) ==
    \/ a.order_type = "stop" /\ ~TruthyNum(a.stop_limit)
    \/ a.order_type = "market" /\ (TruthyNum(a.price) \/ TruthyNum(a.stop_limit))
    \/ a.order_type \in {"limit", "stop_limit"} /\ ~TruthyNum(a.price)
    \/ a.order_type \notin {"market", "stop", "limit", "stop_limit"}

ValidationError(a) ==
    IF a.order_type = "stop" /\ ~TruthyNum(a.stop_limit)
    THEN [msg |-> "Stop orders require a stop limit price"]
    ELSE IF a.order_type = "market" /\ (TruthyNum(a.price) \/ TruthyNum(a.stop_limit))
    THEN [msg |-> "Market orders cannot have a price or stop limit"]
    ELSE IF a.order_type \in {"limit", "stop_limit"} /\ ~TruthyNum(a.price)
    THEN [msg |-> "Limit orders require a price"]
    ELSE [msg |-> "Invalid order type"]

ProviderOrderType(t) ==
    CASE t = "market" -> "Market"
      [] t = "limit" -> "Limit"
      [] t = "stop" -> "Stop"
      [] t = "stop_limit" -> "StopLimit"
      [] OTHER -> t

\* variant: the default is taken whatever the caller supplied
OrDefault_ignored(opt, d) == d

OrDefault(opt, d) == IF opt # None THEN opt[1] ELSE d

\* the body of the order-creation POST; a property that the spread leaves
\* out has the value None
OrderRequestBody(a) ==
    [AccountKey |-> a.account_key,
     Uic |-> a.uic,
     AssetType |-> OrDefault(a.options.assetType, "FxSpot"),
     BuySell |-> IF a.type = "buy" THEN "Buy" ELSE "Sell",
     OrderType |-> ProviderOrderType(a.order_type),
     Amount |-> a.quantity,
     OrderPrice |-> IF TruthyNum(a.price) THEN a.price ELSE None,
     StopLimitPrice |-> IF TruthyNum(a.stop_limit) THEN a.stop_limit ELSE None,
     OrderRelation |-> "StandAlone",
     ManualOrder |-> OrDefault(a.options.manualOrder, TRUE),
     ExternalReference |-> IF a.options.externalReference \notin {None, Some("")}
                           THEN a.options.externalReference ELSE None,
     IsForceOpen |-> IF a.options.isForceOpen = Some(TRUE) THEN Some(TRUE) ELSE None,
     TrailingStopDistanceToMarket |->
         IF TruthyNum(a.options.trailingStopDistanceToMarket)
         THEN a.options.trailingStopDistanceToMarket ELSE None,
     TrailingStopStep |->
         IF TruthyNum(a.options.trailingStopStep)
         THEN a.options.trailingStopStep ELSE None,
     OrderDuration |->
         IF a.order_type # "market"
         THEN Some(OrDefault(a.options.duration, [DurationType |-> "GoodTillCancel"]))
         ELSE None]

SubmitRequest(a) ==
    [method |-> "POST", endpoint |-> "/trade/v2/orders", body |-> OrderRequestBody(a)]

\* a variant that answers a submitted order by sending the POST once more
LookupRequest_resubmit(orderId) ==
    [method |-> "POST", endpoint |-> "/trade/v2/orders", body |-> [OrderId |-> orderId]]

LookupRequest(orderId) ==
    [method |-> "GET", endpoint |-> "/trade/v2/orders", clientKey |-> client_key,
     orderId |-> orderId]

SubmitBodies ==
    {[OrderId |-> o] : o \in OrderIds}
    \cup {[OrderId |-> ""], Null, OtherBody, ErrorCodeBody, ErrorInfoBody,
          [OrderId |-> "o1", ErrorInfo |-> [ErrorCode |-> "Y", Message |-> "worse"]]}

RawOrder(o, oot, status, price) ==
    [OrderId |-> o, OrderTime |-> "t0", Uic |-> TEST_UIC, BuySell |-> "Buy",
     OpenOrderType |-> oot, Status |-> status, Price |-> price, Amount |-> 1,
     ClientId |-> client_id, AccountId |-> "A1", AssetType |-> "FxSpot",
     Duration |-> [DurationType |-> "DayOrder"]]

LookupBodies ==
    {RawOrder(o, "Limit", "Working", 1) : o \in OrderIds}
    \cup {Null, ErrorCodeBody}

\* the best-effort Order built from the submission parameters
SynthesizedOrder(a, orderId) ==
    [id |-> orderId,
     type |-> a.type,
     order_type |-> a.order_type,
     price |-> IF TruthyNum(a.price) THEN a.price[1] ELSE 0,
     quantity |-> a.quantity,
     time |-> "now",
     uic |-> a.uic,
     client_id |-> client_id,
     account_id |-> a.account_key,
     exchange_id |-> "",
     status |-> "working",
     externalReference |-> OrDefault(a.options.externalReference, Undefined),
     assetType |-> OrDefault(a.options.assetType, "FxSpot")]

\* variant: the scan compares the position's own id with the order id
MatchesOrder_byPositionId(pos, orderId) == pos.id = orderId

\* positions?.find(pos => internal(pos).PositionBase?.SourceOrderId === OrderId)
MatchesOrder(pos, orderId) ==
    Field(pos.INTERNAL.PositionBase, "SourceOrderId") = orderId

FindPosition(positions, orderId) ==
    LET hits == {i \in DOMAIN positions : MatchesOrder(positions[i], orderId)}
    IN  IF hits = {} THEN NoValue
        ELSE positions[CHOOSE i \in hits : \A j \in hits : i <= j]

\* variant: any OrderId property counts, the empty string included
HasOrderId_anyValue(b) == b # Null /\ "OrderId" \in DOMAIN b

\* the negation of (!response || !response.OrderId)
HasOrderId(b) == b # Null /\ TruthyStr(b, "OrderId")

CanCall == pc = "idle"

\* createOrder up to the await of the order-creation POST
CreateOrderCall ==
    /\ CanCall
    /\ \E acc \in RawAccounts, a \in CreateOrderArgs :
        /\ a.account_key = BoundKey(a.type, acc)
        /\ op' = "createOrder"
        /\ args' = a
        /\ account' = acc
        /\ resps' = <<>>
        /\ response' = NoValue
        /\ currentOrder' = NoValue
        /\ IF ValidationThrows(a)
           THEN /\ reqs' = <<>>
                /\ result' = Rejected(ValidationError(a))
                /\ pc' = "done"
           ELSE /\ reqs' = <<SubmitRequest(a)>>
                /\ result' = Pending
                /\ pc' = "createOrder.submit"
    /\ UNCHANGED env

\* from the POST's response to the await of the order-by-id lookup
CreateOrderSubmitted ==
    /\ pc = "createOrder.submit"
    /\ \E r \in Outcomes(SubmitBodies) :
        /\ resps' = Append(resps, r)
        /\ IF FetchJsonThrows(r)
           THEN /\ result' = Rejected(FetchJsonError(r))
                /\ pc' = "done"
                /\ UNCHANGED <<reqs, response>>
           ELSE IF HandleErrorThrows(r.body)
           THEN /\ result' = Rejected(HandleErrorError(r.body))
                /\ pc' = "done"
                /\ UNCHANGED <<reqs, response>>
           ELSE IF ~HasOrderId(r.body)
           THEN /\ result' = Rejected([msg |-> "Failed to place order: No OrderId returned"])
                /\ pc' = "done"
                /\ UNCHANGED <<reqs, response>>
           ELSE /\ response' = r.body
                /\ reqs' = Append(reqs, LookupRequest(r.body.OrderId))
                /\ pc' = "createOrder.lookup"
                /\ UNCHANGED result
    /\ UNCHANGED <<op, args, account, currentOrder>>
    /\ UNCHANGED env

\* from the lookup's response to its settlement or to the positions fetch
CreateOrderLookedUp ==
    /\ pc = "createOrder.lookup"
    /\ \E r \in Outcomes(LookupBodies) :
        /\ resps' = Append(resps, r)
        /\ IF RequestThrows(r)
           THEN /\ reqs' = Append(reqs, PositionsRequest(Some(args.account_key)))
                /\ pc' = "createOrder.positions"
                /\ UNCHANGED result
           ELSE IF r.body # Null
           THEN /\ result' = Resolved(r.body)
                /\ pc' = "done"
                /\ UNCHANGED reqs
           ELSE /\ result' = Resolved(SynthesizedOrder(args, response.OrderId))
                /\ pc' = "done"
                /\ UNCHANGED reqs
    /\ UNCHANGED <<op, args, account, response, currentOrder>>
    /\ UNCHANGED env

\* the catch branch: scan of the account's positions, then the fallback
CreateOrderPositions ==
    /\ pc = "createOrder.positions"
    /\ \E r \in Outcomes(PositionsBodies) :
        /\ resps' = Append(resps, r)
        /\ LET positions == GetPositions(r)
               position == FindPosition(positions.value, response.OrderId)
           IN  result' = IF positions.kind = "rejected" THEN positions
                         ELSE IF position # NoValue THEN Resolved(position)
                         ELSE Resolved(SynthesizedOrder(args, response.OrderId))
        /\ pc' = "done"
    /\ UNCHANGED <<op, args, account, reqs, response, currentOrder>>
    /\ UNCHANGED env

----------------------------------------------------------------------------
(* getOrders: normalization of the order list *)

RawOrders ==
    {RawOrder(o, oot, "Working", 1) : o \in OrderIds, oot \in {"Limit", "TrailingStop"}}
    \cup {RawOrder("o1", "Stop", "NotWorking", 1)}
    \cup {[OrderId |-> "o1", OrderTime |-> "t0", Uic |-> TEST_UIC]}

OrdersBodies ==
    {[Data |-> d] : d \in SeqsUpTo(RawOrders, MaxData)}
    \cup {Null, OtherBody, ErrorCodeBody, ErrorInfoBody}

ToLowerCase(str) ==
    CASE str = "Buy" -> "buy"
      [] str = "Sell" -> "sell"
      [] OTHER -> str

InternalOrderType(t) ==
    CASE t = "Market" -> "market"
      [] t = "Limit" -> "limit"
      [] t = "Stop" -> "stop"
      [] t = "StopLimit" -> "stop_limit"
      [] OTHER -> t

\* variant: the provider's status is copied as it is
InternalStatus_raw(st) == st

InternalStatus(st) ==
    CASE st = "Filled" -> "filled"
      [] st = "Working" -> "working"
      [] st = "Parked" -> "parked"
      [] OTHER -> st

\* order.BuySell.toLowerCase() throws a TypeError on a record without BuySell
OrderMapThrows(order) == "BuySell" \notin DOMAIN order

MapOrder(order) ==
    [id |-> Field(order, "OrderId"),
     time |-> Field(order, "OrderTime"),
     uic |-> Field(order, "Uic"),
     type |-> ToLowerCase(order.BuySell),
     order_type |-> InternalOrderType(Field(order, "OpenOrderType")),
     status |-> InternalStatus(Field(order, "Status")),
     price |-> Field(order, "Price"),
     quantity |-> Field(order, "Amount"),
     client_id |-> Field(order, "ClientId"),
     account_id |-> Field(order, "AccountId"),
     exchange_id |-> IF "Exchange" \in DOMAIN order
                     THEN Field(order.Exchange, "ExchangeId") ELSE Undefined,
     assetType |-> Field(order, "AssetType"),
     INTERNAL |-> order]

GetOrdersThrows(r) ==
    \/ RequestThrows(r)
    \/ HandleErrorThrows(r.body)
    \/ /\ "Data" \in DOMAIN r.body
       /\ \E i \in DOMAIN r.body.Data : OrderMapThrows(r.body.Data[i])

\* result?.Data?.map(...) || []
MappedOrders(r) ==
    IF "Data" \in DOMAIN r.body
    THEN [i \in DOMAIN r.body.Data |-> MapOrder(r.body.Data[i])]
    ELSE <<>>

\* variant: getOrders reports no orders, whatever the response
GetOrders_noOrders(r) == Resolved(<<>>)

\* the settlement of getOrders for a transport outcome r: the catch block
\* turns every throw of the try block into an empty list
GetOrders(r) ==
    IF GetOrdersThrows(r) THEN Resolved(<<>>) ELSE Resolved(MappedOrders(r))

OrdersRequest(account_key) ==
    IF account_key # None
    THEN Get("/port/v1/orders", [ClientKey |-> client_key, AccountKey |-> account_key[1]])
    ELSE Get("/port/v1/orders/me", NoValue)

----------------------------------------------------------------------------
(* modifyOrder *)

ModifyOrderArgs ==
    [account_key : AccountKeys, orderId : OrderIds, price : OptNums,
     quantity : {None} \cup {Some(q) : q \in Quantities}]

\* variant: the first listed order is taken, whatever its id
FindOrder_first(orders, orderId) == IF orders = <<>> THEN NoValue ELSE orders[1]

\* orders?.find(o => o.id === orderId)
FindOrder(orders, orderId) ==
    LET hits == {i \in DOMAIN orders : orders[i].id = orderId}
    IN  IF hits = {} THEN NoValue
        ELSE orders[CHOOSE i \in hits : \A j \in hits : i <= j]

\* the catch block of modifyOrder rethrows whatever its try block threw
FailedToGetOrderDetails(error) ==
    [msg |-> "Failed to get order details", cause |-> error]

OrderNotFoundError(orderId) == [msg |-> "Order not found", orderId |-> orderId]

PatchOrderType(t) ==
    CASE t = "market" -> "Market"
      [] t = "limit" -> "Limit"
      [] t = "stop" -> "Stop"
      [] t = "stop_limit" -> "StopLimit"
      [] OTHER -> "Limit"

UpdateData(a, order) ==
    [AccountKey |-> a.account_key,
     OrderId |-> a.orderId,
     OrderType |-> PatchOrderType(order.order_type),
     AssetType |-> order.assetType,
     Uic |-> order.uic,
     OrderDuration |-> [DurationType |-> "GoodTillCancel"],
     OrderPrice |-> a.price,
     Amount |-> a.quantity]

PatchRequest(a, order) ==
    [method |-> "PATCH", endpoint |-> "/trade/v2/orders", body |-> UpdateData(a, order)]

PatchBodies == {[OrderId |-> o] : o \in OrderIds} \cup {Null, ErrorCodeBody, ErrorInfoBody}

\* modifyOrder up to the await inside getOrders
ModifyOrderCall ==
    /\ CanCall
    /\ \E acc \in RawAccounts, a \in ModifyOrderArgs :
        /\ a.account_key = BoundKey("modifyOrder", acc)
        /\ op' = "modifyOrder"
        /\ args' = a
        /\ account' = acc
        /\ reqs' = <<OrdersRequest(Some(a.account_key))>>
    /\ resps' = <<>>
    /\ response' = NoValue
    /\ currentOrder' = NoValue
    /\ result' = Pending
    /\ pc' = "modifyOrder.orders"
    /\ UNCHANGED env

\* from the order list to the rejection or to the await of the PATCH
ModifyOrderListed ==
    /\ pc = "modifyOrder.orders"
    /\ \E r \in Outcomes(OrdersBodies) :
        /\ resps' = Append(resps, r)
        /\ LET orders == GetOrders(r)
               found == IF orders.kind = "rejected" THEN NoValue
                        ELSE FindOrder(orders.value, args.orderId)
           IN  IF found = NoValue
               THEN /\ result' = Rejected(FailedToGetOrderDetails(
                                     IF orders.kind = "rejected" THEN orders.error
                                     ELSE OrderNotFoundError(args.orderId)))
                    /\ pc' = "done"
                    /\ UNCHANGED <<reqs, currentOrder>>
               ELSE /\ currentOrder' = found
                    /\ reqs' = Append(reqs, PatchRequest(args, found))
                    /\ pc' = "modifyOrder.patch"
                    /\ UNCHANGED result
    /\ UNCHANGED <<op, args, account, response>>
    /\ UNCHANGED env

\* from the PATCH's response to the settlement
ModifyOrderPatched ==
    /\ pc = "modifyOrder.patch"
    /\ \E r \in Outcomes(PatchBodies) :
        /\ resps' = Append(resps, r)
        /\ result' = IF FetchJsonThrows(r) THEN Rejected(FetchJsonError(r))
                     ELSE IF HandleErrorThrows(r.body)
                          THEN Rejected(HandleErrorError(r.body))
                          ELSE Resolved(r.body)
    /\ pc' = "done"
    /\ UNCHANGED <<op, args, account, reqs, response, currentOrder>>
    /\ UNCHANGED env

----------------------------------------------------------------------------
(* Lenient reads: getPositions, getOrders, getNetPositions,                *)
(* getClosedPositions, getExposure                                         *)

OptAccountKeys == {None} \cup {Some(k) : k \in AccountKeys}

\* variant: a read that is served without a request of its own
StartRead_noRequest(name, acc, a, request) ==
    /\ op' = name
    /\ args' = a
    /\ account' = acc
    /\ reqs' = <<>>
    /\ resps' = <<>>
    /\ response' = NoValue
    /\ currentOrder' = NoValue
    /\ result' = Pending
    /\ pc' = name

StartRead(name, acc, a, request) ==
    /\ op' = name
    /\ args' = a
    /\ account' = acc
    /\ reqs' = <<request>>
    /\ resps' = <<>>
    /\ response' = NoValue
    /\ currentOrder' = NoValue
    /\ result' = Pending
    /\ pc' = name

GetPositionsCall ==
    /\ CanCall
    /\ \/ \E k \in OptAccountKeys :
            StartRead("getPositions", NoValue, [account_key |-> k], PositionsRequest(k))
       \/ \E acc \in RawAccounts :
            LET k == Some(BoundKey("getPositions", acc))
            IN  StartRead("getPositions", acc, [account_key |-> k], PositionsRequest(k))
    /\ UNCHANGED env

GetPositionsSettled ==
    /\ pc = "getPositions"
    /\ \E r \in Outcomes(PositionsBodies) :
        /\ resps' = Append(resps, r)
        /\ result' = GetPositions(r)
    /\ pc' = "done"
    /\ UNCHANGED <<op, args, account, reqs, response, currentOrder>>
    /\ UNCHANGED env

GetOrdersCall ==
    /\ CanCall
    /\ \/ \E k \in OptAccountKeys :
            StartRead("getOrders", NoValue, [account_key |-> k], OrdersRequest(k))
       \/ \E acc \in RawAccounts :
            LET k == Some(BoundKey("getOrders", acc))
            IN  StartRead("getOrders", acc, [account_key |-> k], OrdersRequest(k))
    /\ UNCHANGED env

GetOrdersSettled ==
    /\ pc = "getOrders"
    /\ \E r \in Outcomes(OrdersBodies) :
        /\ resps' = Append(resps, r)
        /\ result' = GetOrders(r)
    /\ pc' = "done"
    /\ UNCHANGED <<op, args, account, reqs, response, currentOrder>>
    /\ UNCHANGED env

NetPositionBase0 ==
    [Uic |-> TEST_UIC, AccountId |-> "A1", Status |-> "Open", Amount |-> 1,
     AverageOpenPrice |-> 1, AssetType |-> "FxSpot"]

NetPositionView0 == [MarketValue |-> 1, ExposureCurrency |-> "EUR"]

RawNetPositions ==
    {[NetPositionId |-> n, NetPositionBase |-> NetPositionBase0,
      NetPositionView |-> NetPositionView0] : n \in {"n1", "n2"}}
    \cup {[NetPositionId |-> "n3", NetPositionBase |-> NetPositionBase0]}

NetPositionsBodies ==
    {[Data |-> d] : d \in SeqsUpTo(RawNetPositions, MaxData)}
    \cup {Null, OtherBody, ErrorCodeBody, ErrorInfoBody}

NetPositionMapThrows(netPos) ==
    "NetPositionBase" \notin DOMAIN netPos \/ "NetPositionView" \notin DOMAIN netPos

MapNetPosition(netPos) ==
    [id |-> Field(netPos, "NetPositionId"),
     uic |-> Field(netPos.NetPositionBase, "Uic"),
     client_id |-> client_id,
     account_id |-> Field(netPos.NetPositionBase, "AccountId"),
     order_id |-> "",
     status |-> Field(netPos.NetPositionBase, "Status"),
     quantity |-> Field(netPos.NetPositionBase, "Amount"),
     price |-> Field(netPos.NetPositionBase, "AverageOpenPrice"),
     value |-> Field(netPos.NetPositionView, "MarketValue"),
     currency |-> Field(netPos.NetPositionView, "ExposureCurrency"),
     assetType |-> Field(netPos.NetPositionBase, "AssetType"),
     INTERNAL |-> netPos]

GetNetPositionsThrows(r) ==
    \/ RequestThrows(r)
    \/ HandleErrorThrows(r.body)
    \/ /\ "Data" \in DOMAIN r.body
       /\ \E i \in DOMAIN r.body.Data : NetPositionMapThrows(r.body.Data[i])

\* result?.Data?.map(...) || []
MappedNetPositions(r) ==
    IF "Data" \in DOMAIN r.body
    THEN [i \in DOMAIN r.body.Data |-> MapNetPosition(r.body.Data[i])]
    ELSE <<>>

\* variant: getNetPositions without its try/catch
GetNetPositions_noCatch(r) ==
    IF GetNetPositionsThrows(r) THEN Rejected(TryError(r))
    ELSE Resolved(MappedNetPositions(r))

\* the settlement of getNetPositions for a transport outcome r: the catch block
\* turns every throw of the try block into an empty list
GetNetPositions(r) ==
    IF GetNetPositionsThrows(r) THEN Resolved(<<>>) ELSE Resolved(MappedNetPositions(r))

NetPositionsRequest(account_key) ==
    IF account_key # None
    THEN Get("/port/v1/netpositions",
             [ClientKey |-> client_key, AccountKey |-> account_key[1]])
    ELSE Get("/port/v1/netpositions/me", NoValue)

GetNetPositionsCall ==
    /\ CanCall
    /\ \E k \in OptAccountKeys :
        StartRead("getNetPositions", NoValue, [account_key |-> k], NetPositionsRequest(k))
    /\ UNCHANGED env

GetNetPositionsSettled ==
    /\ pc = "getNetPositions"
    /\ \E r \in Outcomes(NetPositionsBodies) :
        /\ resps' = Append(resps, r)
        /\ result' = GetNetPositions(r)
    /\ pc' = "done"
    /\ UNCHANGED <<op, args, account, reqs, response, currentOrder>>
    /\ UNCHANGED env

RawClosedPositions ==
    {[ClosedPositionId |-> c, PositionBase |-> b, PositionView |-> [ProfitLoss |-> 1,
      ExposureCurrency |-> "EUR"]] :
        c \in {"c1"}, b \in {x \in PositionBases : "SourceOrderId" \in DOMAIN x}}
    \cup {[ClosedPositionId |-> "c3"]}

ClosedPositionsBodies ==
    {[Data |-> d] : d \in SeqsUpTo(RawClosedPositions, MaxData)}
    \cup {Null, OtherBody, ErrorCodeBody, ErrorInfoBody}

ClosedPositionMapThrows(closedPos) ==
    "PositionBase" \notin DOMAIN closedPos \/ "PositionView" \notin DOMAIN closedPos

MapClosedPosition(closedPos) ==
    [id |-> Field(closedPos, "ClosedPositionId"),
     uic |-> Field(closedPos.PositionBase, "Uic"),
     client_id |-> client_id,
     account_id |-> Field(closedPos.PositionBase, "AccountId"),
     order_id |-> Field(closedPos.PositionBase, "SourceOrderId"),
     status |-> "closed",
     quantity |-> Field(closedPos.PositionBase, "Amount"),
     price |-> Field(closedPos.PositionBase, "OpenPrice"),
     value |-> Field(closedPos.PositionView, "ProfitLoss"),
     currency |-> Field(closedPos.PositionView, "ExposureCurrency"),
     INTERNAL |-> closedPos]

GetClosedPositionsThrows(r) ==
    \/ RequestThrows(r)
    \/ HandleErrorThrows(r.body)
    \/ /\ "Data" \in DOMAIN r.body
       /\ \E i \in DOMAIN r.body.Data : ClosedPositionMapThrows(r.body.Data[i])

\* result?.Data?.map(...) || []
MappedClosedPositions(r) ==
    IF "Data" \in DOMAIN r.body
    THEN [i \in DOMAIN r.body.Data |-> MapClosedPosition(r.body.Data[i])]
    ELSE <<>>

\* the settlement of getClosedPositions for a transport outcome r: the catch block
\* turns every throw of the try block into an empty list
GetClosedPositions(r) ==
    IF GetClosedPositionsThrows(r) THEN Resolved(<<>>) ELSE Resolved(MappedClosedPositions(r))

\* a Date argument: absent, a valid date, or an Invalid Date, whose
\* toISOString() throws a RangeError
OptDates == {None, Some("2024-01-01T00:00:00.000Z"), Some("Invalid Date")}

ToISOStringThrows(d) == d # None /\ d[1] = "Invalid Date"

ClosedPositionsRequest(account_key, fromDate, toDate) ==
    [method |-> "GET",
     endpoint |-> IF account_key # None THEN "/port/v1/closedpositions"
                  ELSE "/port/v1/closedpositions/me",
     query |-> IF account_key # None
               THEN [ClientKey |-> client_key, AccountKey |-> account_key[1]]
               ELSE NoValue,
     FromDateTime |-> fromDate,
     ToDateTime |-> toDate]

\* the endpoint is built, dates included, before the try block is entered
GetClosedPositionsCall ==
    /\ CanCall
    /\ \E k \in OptAccountKeys, fromDate \in OptDates, toDate \in OptDates :
        LET a == [account_key |-> k, fromDate |-> fromDate, toDate |-> toDate]
        IN  IF ToISOStringThrows(fromDate) \/ ToISOStringThrows(toDate)
            THEN /\ op' = "getClosedPositions"
                 /\ args' = a
                 /\ account' = NoValue
                 /\ reqs' = <<>>
                 /\ resps' = <<>>
                 /\ response' = NoValue
                 /\ currentOrder' = NoValue
                 /\ result' = Rejected([msg |-> "Invalid time value"])
                 /\ pc' = "done"
            ELSE StartRead("getClosedPositions", NoValue, a,
                           ClosedPositionsRequest(k, fromDate, toDate))
    /\ UNCHANGED env

GetClosedPositionsSettled ==
    /\ pc = "getClosedPositions"
    /\ \E r \in Outcomes(ClosedPositionsBodies) :
        /\ resps' = Append(resps, r)
        /\ result' = GetClosedPositions(r)
    /\ pc' = "done"
    /\ UNCHANGED <<op, args, account, reqs, response, currentOrder>>
    /\ UNCHANGED env

ExposureBodies == {[Data |-> <<>>], Null, OtherBody, ErrorCodeBody, ErrorInfoBody}

EmptyObject == [empty |-> TRUE]

GetExposureThrows(r) == RequestThrows(r) \/ HandleErrorThrows(r.body)

GetExposure(r) ==
    IF GetExposureThrows(r) THEN Resolved(EmptyObject) ELSE Resolved(r.body)

ExposureRequest(account_key) ==
    IF account_key # None
    THEN Get("/port/v1/exposure", [ClientKey |-> client_key, AccountKey |-> account_key[1]])
    ELSE Get("/port/v1/exposure/me", NoValue)

GetExposureCall ==
    /\ CanCall
    /\ \E k \in OptAccountKeys :
        StartRead("getExposure", NoValue, [account_key |-> k], ExposureRequest(k))
    /\ UNCHANGED env

GetExposureSettled ==
    /\ pc = "getExposure"
    /\ \E r \in Outcomes(ExposureBodies) :
        /\ resps' = Append(resps, r)
        /\ result' = GetExposure(r)
    /\ pc' = "done"
    /\ UNCHANGED <<op, args, account, reqs, response, currentOrder>>
    /\ UNCHANGED env

----------------------------------------------------------------------------
(* getBalance:                                                             *)
(*   request(...).catch(handleError).then(handleError).then(toBalance)     *)

BalanceBodies ==
    {[CashBalance |-> 5, CashAvailableForTrading |-> 4, TotalValue |-> 6,
      Currency |-> "EUR"],
     [CashBalance |-> 0, Currency |-> "EUR"],
     Null, OtherBody, ErrorCodeBody, ErrorInfoBody}

\* response.X || 0
NumOrZero(b, f) == IF f \in DOMAIN b /\ b[f] # 0 THEN b[f] ELSE 0

ToBalance(b) ==
    [cashBalance |-> NumOrZero(b, "CashBalance"),
     cashAvailable |-> NumOrZero(b, "CashAvailableForTrading"),
     totalValue |-> NumOrZero(b, "TotalValue"),
     marginUsed |-> NumOrZero(b, "MarginUsedByCurrentPositions"),
     marginAvailable |-> NumOrZero(b, "MarginAvailableForTrading"),
     unrealizedPnL |-> NumOrZero(b, "UnrealizedPositionsValue"),
     currency |-> Field(b, "Currency"),
     INTERNAL |-> b]

\* .catch(handleError): a rejection of request() is handed to handleError,
\* which returns the Error object it is given unless that object has an
\* ErrorCode or ErrorInfo property; the chain then continues as fulfilled
AfterCatch(r) ==
    IF RequestThrows(r)
    THEN IF HandleErrorThrows(RequestError(r))
         THEN Rejected(HandleErrorError(RequestError(r)))
         ELSE Resolved(RequestError(r))
    ELSE Resolved(r.body)

\* .then(handleError).then(response => lock({...}))
GetBalanceResult(r) ==
    LET caught == AfterCatch(r)
    IN  IF caught.kind = "rejected" THEN caught
        ELSE IF HandleErrorThrows(caught.value)
             THEN Rejected(HandleErrorError(caught.value))
        ELSE IF caught.value = Null
             THEN Rejected([msg |-> "TypeError: Cannot read properties of null"])
        ELSE Resolved(ToBalance(caught.value))

BalanceRequest(account_key) ==
    Get("/port/v1/balances", [ClientKey |-> client_key, AccountKey |-> account_key])

GetBalanceCall ==
    /\ CanCall
    /\ \E acc \in RawAccounts :
        LET k == BoundKey("getBalance", acc)
        IN  StartRead("getBalance", acc, [account_key |-> k], BalanceRequest(k))
    /\ UNCHANGED env

GetBalanceSettled ==
    /\ pc = "getBalance"
    /\ \E r \in Outcomes(BalanceBodies) :
        /\ resps' = Append(resps, r)
        /\ result' = GetBalanceResult(r)
    /\ pc' = "done"
    /\ UNCHANGED <<op, args, account, reqs, response, currentOrder>>
    /\ UNCHANGED env

----------------------------------------------------------------------------
(* getAccounts:                                                            *)
(*   (await request(...).catch(handleError))?.Data?.map(account => ...)    *)

AccountsBodies ==
    {[Data |-> s] : s \in SeqsUpTo(RawAccounts \cup {[AccountId |-> "A2"]}, MaxData)}
    \cup {Null, OtherBody, ErrorCodeBody, ErrorInfoBody}

\* the data properties of the Account object; its methods are the calls
\* of the model made on the account
MapAccount(acc) ==
    [id |-> Field(acc, "AccountId"), key |-> Field(acc, "AccountKey"),
     active |-> Field(acc, "Active"), currency |-> Field(acc, "Currency"),
     INTERNAL |-> acc]

\* a promise fulfilled with undefined: a settlement without a value
ResolvedUndefined == [kind |-> "resolved"]

\* ?.Data?.map: undefined when the awaited value is null or has no Data
GetAccountsResult(r) ==
    LET caught == AfterCatch(r)
    IN  IF caught.kind = "rejected" THEN caught
        ELSE IF caught.value = Null \/ "Data" \notin DOMAIN caught.value
             THEN ResolvedUndefined
        ELSE Resolved([i \in 1..Len(caught.value.Data) |->
                          MapAccount(caught.value.Data[i])])

AccountsRequest == Get("/port/v1/accounts/me", NoValue)

GetAccountsCall ==
    /\ CanCall
    /\ StartRead("getAccounts", NoValue, NoValue, AccountsRequest)
    /\ UNCHANGED env

GetAccountsSettled ==
    /\ pc = "getAccounts"
    /\ \E r \in Outcomes(AccountsBodies) :
        /\ resps' = Append(resps, r)
        /\ result' = GetAccountsResult(r)
    /\ pc' = "done"
    /\ UNCHANGED <<op, args, account, reqs, response, currentOrder>>
    /\ UNCHANGED env

----------------------------------------------------------------------------
(* cancelOrder and cancelAllOrders:                                        *)
(*   fetch(DELETE).then(r => { if (!r.ok) throw ...;                       *)
(*                             return r.status === 204 ? {} : r.json() })  *)
(*                .then(handleError)                                       *)

\* a 2xx response with status 204 and no body
NoContent == [net |-> "response", ok |-> TRUE, status |-> "204", body |-> NotJson]

CancelBodies ==
    {[Orders |-> <<[OrderId |-> "o1"]>>], Null, ErrorCodeBody, ErrorInfoBody}

CancelOutcomes == Outcomes(CancelBodies) \cup {NoContent}

AssetTypes == {None, Some("Stock")}

CancelOrderRequest(account_key, orderId) ==
    [method |-> "DELETE", endpoint |-> "/trade/v2/orders", orderId |-> orderId,
     query |-> [AccountKey |-> account_key]]

CancelAllOrdersRequest(account_key, uic, assetType) ==
    [method |-> "DELETE", endpoint |-> "/trade/v2/orders",
     query |-> [AccountKey |-> account_key,
                AssetType |-> OrDefault(assetType, "FxSpot"), Uic |-> uic]]

\* the settlement of either cancellation, given the DELETE's outcome
CancelResult(r, failure) ==
    IF r.net = "error" THEN Rejected([msg |-> "fetch failed"])
    ELSE IF ~r.ok THEN Rejected([msg |-> failure])
    ELSE IF "status" \in DOMAIN r THEN Resolved(EmptyObject)
    ELSE IF r.body = NotJson THEN Rejected([msg |-> "invalid json"])
    ELSE IF HandleErrorThrows(r.body) THEN Rejected(HandleErrorError(r.body))
    ELSE Resolved(r.body)

CancelOrderCall ==
    /\ CanCall
    /\ \E acc \in RawAccounts, o \in OrderIds :
        LET k == BoundKey("cancelOrder", acc)
        IN  StartRead("cancelOrder", acc, [account_key |-> k, orderId |-> o],
                      CancelOrderRequest(k, o))
    /\ UNCHANGED env

CancelOrderSettled ==
    /\ pc = "cancelOrder"
    /\ \E r \in CancelOutcomes :
        /\ resps' = Append(resps, r)
        /\ result' = CancelResult(r, "Failed to cancel order")
    /\ pc' = "done"
    /\ UNCHANGED <<op, args, account, reqs, response, currentOrder>>
    /\ UNCHANGED env

CancelAllOrdersCall ==
    /\ CanCall
    /\ \E acc \in RawAccounts, t \in AssetTypes :
        LET k == BoundKey("cancelAllOrders", acc)
        IN  StartRead("cancelAllOrders", acc,
                      [account_key |-> k, uic |-> TEST_UIC, assetType |-> t],
                      CancelAllOrdersRequest(k, TEST_UIC, t))
    /\ UNCHANGED env

CancelAllOrdersSettled ==
    /\ pc = "cancelAllOrders"
    /\ \E r \in CancelOutcomes :
        /\ resps' = Append(resps, r)
        /\ result' = CancelResult(r, "Failed to cancel orders")
    /\ pc' = "done"
    /\ UNCHANGED <<op, args, account, reqs, response, currentOrder>>
    /\ UNCHANGED env

----------------------------------------------------------------------------
(* preCheckOrder:                                                          *)
(*   fetch(POST).then(r => r.json()).then(handleError), then the           *)
(*   transformation of the provider's fields into a PreCheckResult         *)

PreCheckRequests ==
    {[AccountKey |-> k, Uic |-> TEST_UIC, BuySell |-> "Buy", OrderType |-> "Market",
      Amount |-> q] : k \in AccountKeys, q \in Quantities}

PreCheckRequest(orderRequest) ==
    [method |-> "POST", endpoint |-> "/trade/v2/orders/precheck", body |-> orderRequest]

PreCheckBodies ==
    {[PreCheckResult |-> "Ok",
      EstimatedCosts |-> [Commission |-> 1, Financing |-> 0, Total |-> 2]],
     [PreCheckResult |-> "Ok", Costs |-> [Commission |-> 1, TotalCosts |-> 2],
      MarginImpact |-> [InitialMargin |-> 3, MaintenanceMargin |-> 2,
                        Currency |-> "EUR"]],
     Null, OtherBody, ErrorCodeBody, ErrorInfoBody}

\* costs.Total || costs.TotalCosts
TotalOf(costs) ==
    IF TruthyNum(IF "Total" \in DOMAIN costs THEN Some(costs.Total) ELSE None)
    THEN costs.Total ELSE Field(costs, "TotalCosts")

\* the properties the transformation sets, one conditional at a time; a
\* conditional that does not fire adds no property (<<>>)
ToPreCheckResult(b) ==
    LET costs == IF "EstimatedCosts" \in DOMAIN b THEN b.EstimatedCosts ELSE b.Costs
        estimatedCosts ==
            IF "EstimatedCosts" \in DOMAIN b \/ "Costs" \in DOMAIN b
            THEN [estimatedCosts |-> [commission |-> Field(costs, "Commission"),
                                      financing |-> Field(costs, "Financing"),
                                      total |-> TotalOf(costs)]]
            ELSE <<>>
        marginImpact ==
            IF "MarginImpact" \in DOMAIN b
            THEN [marginImpact |->
                    [initialMargin |-> Field(b.MarginImpact, "InitialMargin"),
                     maintenanceMargin |-> Field(b.MarginImpact, "MaintenanceMargin"),
                     currency |-> Field(b.MarginImpact, "Currency")]]
            ELSE <<>>
        errorInfo ==
            IF "ErrorInfo" \in DOMAIN b
            THEN [errorInfo |-> [errorCode |-> Field(b.ErrorInfo, "ErrorCode"),
                                 message |-> Field(b.ErrorInfo, "Message")]]
            ELSE <<>>
        preCheckResult ==
            IF TruthyStr(b, "PreCheckResult")
            THEN [preCheckResult |-> b.PreCheckResult]
            ELSE <<>>
    IN  estimatedCosts @@ marginImpact @@ errorInfo @@ preCheckResult

PreCheckOrderResult(r) ==
    IF FetchJsonThrows(r) THEN Rejected(FetchJsonError(r))
    ELSE IF HandleErrorThrows(r.body) THEN Rejected(HandleErrorError(r.body))
    ELSE IF r.body = Null
         THEN Rejected([msg |-> "TypeError: Cannot read properties of null"])
    ELSE Resolved(ToPreCheckResult(r.body))

PreCheckOrderCall ==
    /\ CanCall
    /\ \E rq \in PreCheckRequests :
        StartRead("preCheckOrder", NoValue, [orderRequest |-> rq], PreCheckRequest(rq))
    /\ UNCHANGED env

PreCheckOrderSettled ==
    /\ pc = "preCheckOrder"
    /\ \E r \in Outcomes(PreCheckBodies) :
        /\ resps' = Append(resps, r)
        /\ result' = PreCheckOrderResult(r)
    /\ pc' = "done"
    /\ UNCHANGED <<op, args, account, reqs, response, currentOrder>>
    /\ UNCHANGED env

----------------------------------------------------------------------------
(* authenticate: the four requests of the authorization-code flow          *)
(*                                                                         *)
(* A URL is a record of its host, the text after the host, and the value   *)
(* of its `code` query parameter when it has one.  A response of the first *)
(* three requests is read for its headers only: Location and Set-Cookie,   *)
(* each absent (None) or present.                                          *)

Url(host, rest, code) == [host |-> host, rest |-> rest, code |-> code]

LoginUrl == Url("sim.saxobank.com", "/login", None)

\* the Location headers the authorization endpoint may answer with
AuthorizeLocations ==
    {None, Some(LoginUrl),
     Some(Url("evil.example", "/login", None)),
     Some(Url("evil.example", "/login?next=saxobank.com", None)),
     Some(Url("saxobank.com.evil.example", "/login", None))}

\* String.prototype.includes("saxobank.com") on the pieces of text that
\* occur in the URLs above
TextIncludesDomain(text) ==
    text \in {"sim.saxobank.com", "/login?next=saxobank.com",
              "saxobank.com.evil.example"}

\* loginUrl.includes("saxobank.com"): anywhere in the URL's text
UrlIncludesDomain(url) == TextIncludesDomain(url.host) \/ TextIncludesDomain(url.rest)

PostLoginUrl == Url("sim.saxobank.com", "/postlogin", None)

\* redirect_uri with the query the provider appends
RedirectLocations ==
    {None,
     Some(Url("app.example", "/cb?code=ac1", Some("ac1"))),
     Some(Url("app.example", "/cb?code=", Some(""))),
     Some(Url("app.example", "/cb?error=denied", None))}

Headers(location, cookie) ==
    [net |-> "response", location |-> location, cookie |-> cookie]

AuthorizeOutcomes == {NetworkError} \cup {Headers(l, None) : l \in AuthorizeLocations}

LoginOutcomes ==
    {NetworkError}
    \cup {Headers(l, c) : l \in {None, Some(PostLoginUrl)}, c \in {None, Some("sid")}}

RedirectOutcomes == {NetworkError} \cup {Headers(l, None) : l \in RedirectLocations}

TokenBodies == {[access_token |-> "tok1"], OtherBody, Null}

Credentials ==
    {[type |-> "token", token |-> t] : t \in {"tok0", "tok9"}}
    \cup {[type |-> "account", username |-> "u", password |-> "p"]}

AuthorizeRequest ==
    [method |-> "GET", endpoint |-> "/authorize",
     query |-> [response_type |-> "code", client_id |-> "appKey",
                redirect_uri |-> "redirectUri"]]

LoginRequest(loginUrl, username, password) ==
    [method |-> "POST", url |-> loginUrl,
     body |-> [field_userid |-> username, field_password |-> password]]

RedirectRequest(postLoginUrl, cookie) ==
    [method |-> "GET", url |-> postLoginUrl, cookie |-> OrDefault(cookie, "")]

\* authCode is searchParams.get("code"): None when the URL has no such
\* parameter (null, which URLSearchParams writes as the text "null")
TokenRequest(authCode) ==
    [method |-> "POST", endpoint |-> "/token", basic |-> "appKey:appSecret",
     body |-> [grant_type |-> "authorization_code",
               code |-> OrDefault(authCode, "null"),
               redirect_uri |-> "redirectUri"]]

\* variant: the authorization code is never found missing
NoAuthCode_never(authCode) == FALSE

\* !authCode
NoAuthCode(authCode) == authCode \in {None, Some("")}

\* variant: the identity request always bears the same token
IdentityRequest_fixedToken(access_token) ==
    [method |-> "GET", endpoint |-> "/port/v1/clients/me", token |-> "tok0"]

IdentityRequest(access_token) ==
    [method |-> "GET", endpoint |-> "/port/v1/clients/me", token |-> access_token]

IdentityBodies ==
    {[ClientId |-> "C1", ClientKey |-> "K1", Name |-> "N1"],
     [ClientId |-> "C1"], OtherBody, Null, ErrorCodeBody, ErrorInfoBody}

\* a step of createClient ends the call with a rejection
Fail(e) ==
    /\ result' = Rejected(e)
    /\ pc' = "done"
    /\ UNCHANGED <<reqs, response>>

\* a step of createClient issues the next request
Proceed(request, next) ==
    /\ reqs' = Append(reqs, request)
    /\ pc' = next
    /\ UNCHANGED <<result, response>>

\* createClient up to its first await: with a token credential the
\* identity request, otherwise the first request of authenticate
CreateClientCall ==
    /\ CanCall
    /\ \E auth \in Credentials :
        /\ op' = "createClient"
        /\ args' = auth
        /\ IF auth.type = "token"
           THEN /\ response' = [access_token |-> auth.token]
                /\ reqs' = <<IdentityRequest(auth.token)>>
                /\ pc' = "createClient.identity"
           ELSE /\ response' = NoValue
                /\ reqs' = <<AuthorizeRequest>>
                /\ pc' = "authenticate.authorize"
    /\ account' = NoValue
    /\ resps' = <<>>
    /\ currentOrder' = NoValue
    /\ result' = Pending
    /\ UNCHANGED env

\* step 1 answered: the Location header is checked, then the credentials
\* are posted to it
AuthenticateAuthorized ==
    /\ pc = "authenticate.authorize"
    /\ \E r \in AuthorizeOutcomes :
        /\ resps' = Append(resps, r)
        /\ IF r.net = "error" THEN Fail([msg |-> "fetch failed"])
           ELSE IF r.location = None \/ ~UrlIncludesDomain(r.location[1])
           THEN Fail([msg |-> "Unexpected redirect during authentication"])
           ELSE Proceed(LoginRequest(r.location[1], args.username, args.password),
                        "authenticate.login")
    /\ UNCHANGED <<op, args, account, currentOrder>>
    /\ UNCHANGED env

\* step 2 answered: the post-login redirect is followed with the cookie
AuthenticateLoggedIn ==
    /\ pc = "authenticate.login"
    /\ \E r \in LoginOutcomes :
        /\ resps' = Append(resps, r)
        /\ IF r.net = "error" THEN Fail([msg |-> "fetch failed"])
           ELSE IF r.location = None
           THEN Fail([msg |-> "Login failed, no redirect received"])
           ELSE Proceed(RedirectRequest(r.location[1], r.cookie),
                        "authenticate.redirect")
    /\ UNCHANGED <<op, args, account, currentOrder>>
    /\ UNCHANGED env

\* step 3 answered: new URL(location || "") throws on the empty string; the
\* code parameter is exchanged for the token
AuthenticateRedirected ==
    /\ pc = "authenticate.redirect"
    /\ \E r \in RedirectOutcomes :
        /\ resps' = Append(resps, r)
        /\ IF r.net = "error" THEN Fail([msg |-> "fetch failed"])
           ELSE IF r.location = None THEN Fail([msg |-> "TypeError: Invalid URL"])
           ELSE IF NoAuthCode(r.location[1].code)
           THEN Fail([msg |-> "Failed to retrieve authorization code"])
           ELSE Proceed(TokenRequest(r.location[1].code), "authenticate.token")
    /\ UNCHANGED <<op, args, account, currentOrder>>
    /\ UNCHANGED env

\* step 4 answered: authenticate returns the token response's JSON, and
\* createClient requests the identity with its access_token
AuthenticateTokenReceived ==
    /\ pc = "authenticate.token"
    /\ \E r \in Outcomes(TokenBodies) :
        /\ resps' = Append(resps, r)
        /\ IF r.net = "error" THEN Fail([msg |-> "fetch failed"])
           ELSE IF ~r.ok THEN Fail([msg |-> "Failed to fetch token"])
           ELSE IF r.body = NotJson THEN Fail([msg |-> "invalid json"])
           ELSE IF r.body = Null
           THEN Fail([msg |-> "TypeError: Cannot read properties of null"])
           ELSE /\ response' = r.body
                /\ reqs' = Append(reqs, IdentityRequest(Field(r.body, "access_token")))
                /\ pc' = "createClient.identity"
                /\ UNCHANGED result
    /\ UNCHANGED <<op, args, account, currentOrder>>
    /\ UNCHANGED env

\* the client object's data properties; its methods are the other calls
ToClient(client_data) ==
    [id |-> Field(client_data, "ClientId"), key |-> Field(client_data, "ClientKey"),
     name |-> Field(client_data, "Name"), INTERNAL |-> client_data]

\* request(...).then(handleError), then the construction of the client
CreateClientResult(r) ==
    IF RequestThrows(r) THEN Rejected(RequestError(r))
    ELSE IF HandleErrorThrows(r.body) THEN Rejected(HandleErrorError(r.body))
    ELSE IF r.body = Null
         THEN Rejected([msg |-> "TypeError: Cannot read properties of null"])
    ELSE Resolved(ToClient(r.body))

CreateClientIdentified ==
    /\ pc = "createClient.identity"
    /\ \E r \in Outcomes(IdentityBodies) :
        /\ resps' = Append(resps, r)
        /\ result' = CreateClientResult(r)
    /\ pc' = "done"
    /\ UNCHANGED <<op, args, account, reqs, response, currentOrder>>
    /\ UNCHANGED env

----------------------------------------------------------------------------
(* The caller takes the settled result; nothing of a call outlives it. *)

Return ==
    /\ pc = "done"
    /\ pc' = "idle"
    /\ op' = "none"
    /\ args' = NoValue
    /\ account' = NoValue
    /\ reqs' = <<>>
    /\ resps' = <<>>
    /\ response' = NoValue
    /\ currentOrder' = NoValue
    /\ result' = Pending
    /\ UNCHANGED env

----------------------------------------------------------------------------

Init ==
    /\ op = "none"
    /\ pc = "idle"
    /\ args = NoValue
    /\ account = NoValue
    /\ reqs = <<>>
    /\ resps = <<>>
    /\ response = NoValue
    /\ currentOrder = NoValue
    /\ result = Pending
    /\ provider = [open |-> <<>>, gone |-> {}, void |-> {}]
    /\ inflight = NoValue

Next ==
    \/ CreateOrderCall
    \/ CreateOrderSubmitted
    \/ CreateOrderLookedUp
    \/ CreateOrderPositions
    \/ ModifyOrderCall
    \/ ModifyOrderListed
    \/ ModifyOrderPatched
    \/ GetPositionsCall
    \/ GetPositionsSettled
    \/ GetOrdersCall
    \/ GetOrdersSettled
    \/ GetNetPositionsCall
    \/ GetNetPositionsSettled
    \/ GetClosedPositionsCall
    \/ GetClosedPositionsSettled
    \/ GetExposureCall
    \/ GetExposureSettled
    \/ GetBalanceCall
    \/ GetBalanceSettled
    \/ CreateClientCall
    \/ AuthenticateAuthorized
    \/ AuthenticateLoggedIn
    \/ AuthenticateRedirected
    \/ AuthenticateTokenReceived
    \/ CreateClientIdentified
    \/ GetAccountsCall
    \/ GetAccountsSettled
    \/ CancelOrderCall
    \/ CancelOrderSettled
    \/ CancelAllOrdersCall
    \/ CancelAllOrdersSettled
    \/ PreCheckOrderCall
    \/ PreCheckOrderSettled
    \/ Return

Spec == Init /\ [][Next]_vars

----------------------------------------------------------------------------
(* A session against a provider that keeps the account's open orders.      *)
(* The client's calls are the actions above; what they receive is what the *)
(* provider wrote in answer to the pending request.  The provider tracks   *)
(* which orders are open, lists each as a working limit order, and retires *)
(* the id of every order that left.  An order leaves by a fill or by a     *)
(* cancellation taking effect; this is also how a cancelOrder or           *)
(* cancelAllOrders call running beside the modelled call acts on it, as    *)
(* the client shares no state between calls.                               *)

Listing(open) == [i \in DOMAIN open |-> RawOrder(open[i], "Limit", "Working", 1)]

OpenIds(p) == {p.open[i] : i \in DOMAIN p.open}

Without(open, ids) == SelectSeq(open, LAMBDA o : o \notin ids)

\* an order is placed on the account and becomes open under a fresh id
ProviderAccepts ==
    /\ \E o \in OrderIds \ (OpenIds(provider) \cup provider.gone) :
        provider' = [provider EXCEPT !.open = Append(@, o)]
    /\ UNCHANGED <<op, pc, args, account, reqs, resps, response, currentOrder,
                   result, inflight>>

\* an open order is filled, or cancelled through another call
ProviderRemoves ==
    /\ \E o \in OpenIds(provider) :
        provider' = [provider EXCEPT !.open = Without(@, {o}),
                                     !.gone = @ \cup {o}]
    /\ UNCHANGED <<op, pc, args, account, reqs, resps, response, currentOrder,
                   result, inflight>>

\* the orders a DELETE names: one id, or every order of a Uic and AssetType
\* (the provider's orders are FxSpot orders on TEST_UIC)
Named(rq, p) ==
    IF "orderId" \in DOMAIN rq THEN {rq.orderId}
    ELSE IF rq.query.Uic = TEST_UIC /\ rq.query.AssetType = "FxSpot"
         THEN OpenIds(p) ELSE {}

\* the provider's possible answers to request rq in state p, each with the
\* state it leaves; any exchange can also fail in the network.  A DELETE
\* retires the ids it names; `void` keeps those it named in vain, the order
\* being absent already, which the provider may answer with an error.
Answers(rq, p) ==
    {[r |-> NetworkError, to |-> p]}
    \cup
    CASE rq.method = "GET" ->
           {[r |-> Http(TRUE, [Data |-> Listing(p.open)]), to |-> p]}
      [] rq.method = "DELETE" ->
           LET ids == Named(rq, p)
               to == [open |-> Without(p.open, ids), gone |-> p.gone \cup ids,
                      void |-> p.void \cup (ids \ OpenIds(p))]
           IN  {[r |-> NoContent, to |-> to]}
               \cup (IF ids \subseteq OpenIds(p) THEN {}
                     ELSE {[r |-> Http(FALSE, ErrorCodeBody), to |-> to]})
      [] rq.method = "PATCH" ->
           IF rq.body.OrderId \in OpenIds(p)
           THEN {[r |-> Http(TRUE, [OrderId |-> rq.body.OrderId]), to |-> p]}
           ELSE {[r |-> Http(FALSE, ErrorCodeBody), to |-> p]}

\* the provider handles the call's pending request and writes its answer;
\* `at` keeps the provider's state as of the answer
ProviderAnswers ==
    /\ inflight = NoValue
    /\ Len(reqs) = Len(resps) + 1
    /\ \E a \in Answers(reqs[Len(reqs)], provider) :
        /\ inflight' = [for |-> Len(reqs), r |-> a.r, at |-> a.to]
        /\ provider' = a.to
    /\ UNCHANGED <<op, pc, args, account, reqs, resps, response, currentOrder, result>>

\* the exchange ends once the client has read the answer
ProviderCloses ==
    /\ inflight # NoValue
    /\ Len(resps) >= inflight.for
    /\ inflight' = NoValue
    /\ UNCHANGED <<op, pc, args, account, reqs, resps, response, currentOrder,
                   result, provider>>

\* what the call's continuation receives is the answer written for its request
Delivered ==
    /\ inflight # NoValue
    /\ inflight.for = Len(resps) + 1
    /\ resps'[Len(resps')] = inflight.r

SessionGetOrdersCall == inflight = NoValue /\ GetOrdersCall
SessionGetOrdersSettled == GetOrdersSettled /\ Delivered
SessionCancelOrderCall == inflight = NoValue /\ CancelOrderCall
SessionCancelOrderSettled == CancelOrderSettled /\ Delivered
SessionCancelAllOrdersCall == inflight = NoValue /\ CancelAllOrdersCall
SessionCancelAllOrdersSettled == CancelAllOrdersSettled /\ Delivered
SessionModifyOrderCall == inflight = NoValue /\ ModifyOrderCall
SessionModifyOrderListed == ModifyOrderListed /\ Delivered
SessionModifyOrderPatched == ModifyOrderPatched /\ Delivered

NextSession ==
    \/ SessionGetOrdersCall
    \/ SessionGetOrdersSettled
    \/ SessionCancelOrderCall
    \/ SessionCancelOrderSettled
    \/ SessionCancelAllOrdersCall
    \/ SessionCancelAllOrdersSettled
    \/ SessionModifyOrderCall
    \/ SessionModifyOrderListed
    \/ SessionModifyOrderPatched
    \/ Return
    \/ ProviderAccepts
    \/ ProviderRemoves
    \/ ProviderAnswers
    \/ ProviderCloses

SpecSession == Init /\ [][NextSession]_vars

----------------------------------------------------------------------------
(* Properties.  They are stated over the call's arguments, the transport   *)
(* outcomes it received (resps), the requests it issued (reqs) and its     *)
(* settlement (result).                                                    *)

\* the body of a response was received and parsed
Parsed(r) == r.net = "response" /\ r.body # NotJson
\* a 2xx response with a parsed body
Ok2xx(r) == r.net = "response" /\ r.ok /\ r.body # NotJson
\* one of the two provider error shapes
ErrorPayload(b) ==
    ("ErrorCode" \in DOMAIN b /\ b.ErrorCode # "") \/ "ErrorInfo" \in DOMAIN b
\* the order-creation response, once classified, carries an order id
Accepted(r) ==
    /\ Parsed(r)
    /\ ~ErrorPayload(r.body)
    /\ "OrderId" \in DOMAIN r.body
    /\ r.body.OrderId # ""

IsPosition(v) == {"order_id", "INTERNAL"} \subseteq DOMAIN v
IsSynthesizedOrder(v) ==
    /\ {"id", "exchange_id", "status"} \subseteq DOMAIN v
    /\ "INTERNAL" \notin DOMAIN v
    /\ v.status = "working"

\* a positions response whose records all map and one of which refers to order x
PositionsCarry(r, x) ==
    /\ Ok2xx(r)
    /\ ~ErrorPayload(r.body)
    /\ "Data" \in DOMAIN r.body
    /\ \A i \in DOMAIN r.body.Data :
          {"PositionBase", "PositionView"} \subseteq DOMAIN r.body.Data[i]
    /\ \E i \in DOMAIN r.body.Data :
          /\ "SourceOrderId" \in DOMAIN r.body.Data[i].PositionBase
          /\ r.body.Data[i].PositionBase.SourceOrderId = x

\* C1: after a submission that returned order id X, when the order-by-id
\* lookup fails and the positions fetched afterwards contain a position whose
\* raw SourceOrderId is X, createOrder returns that Position (one whose raw
\* record refers to X), not a synthesized Order.
C1_PositionReturnedWhenLookupFails ==
    (/\ op = "createOrder"
     /\ pc = "done"
     /\ Len(resps) = 3
     /\ PositionsCarry(resps[3], resps[1].body.OrderId))
    => /\ result.kind = "resolved"
       /\ IsPosition(result.value)
       /\ ~IsSynthesizedOrder(result.value)
       /\ result.value.order_id = resps[1].body.OrderId
       /\ result.value.INTERNAL.PositionBase.SourceOrderId = resps[1].body.OrderId
       /\ \E i \in DOMAIN resps[3].body.Data :
             result.value.INTERNAL = resps[3].body.Data[i]

C1_Witness ==
    /\ op = "createOrder"
    /\ pc = "done"
    /\ Len(resps) = 3
    /\ resps[2] = Http(FALSE, ErrorCodeBody)
    /\ PositionsCarry(resps[3], "o2")
    /\ resps[1].body.OrderId = "o2"
    /\ Len(resps[3].body.Data) = 2
    /\ result.kind = "resolved"
    /\ IsPosition(result.value)

\* C2: once the order-creation response, after error classification, carries
\* an order id, createOrder never rejects: it goes on to the lookup, possibly
\* to the positions fetch, and settles resolved, whatever those two answer.
C2_NeverRejectsOnceAccepted ==
    (/\ op = "createOrder"
     /\ Len(resps) >= 1
     /\ Accepted(resps[1]))
    => /\ result.kind # "rejected"
       /\ pc \in {"createOrder.lookup", "createOrder.positions", "done"}
       /\ (pc = "done" => result.kind = "resolved")

C2_Witness ==
    /\ op = "createOrder"
    /\ pc = "done"
    /\ Len(resps) = 3
    /\ Accepted(resps[1])
    /\ resps[2] = NetworkError
    /\ Ok2xx(resps[3])
    /\ "Data" \in DOMAIN resps[3].body
    /\ \E i \in DOMAIN resps[3].body.Data :
          "PositionBase" \notin DOMAIN resps[3].body.Data[i]
    /\ result.kind = "resolved"

\* C3: createOrder returns the synthesized Order (status "working") only when
\* the order-by-id lookup did not yield the order and the account's positions
\* were fetched and scanned: the positions request was issued and answered.
C3_SynthesizedOnlyAfterPositionsScan ==
    (/\ op = "createOrder"
     /\ pc = "done"
     /\ result.kind = "resolved"
     /\ IsSynthesizedOrder(result.value))
    => /\ Len(reqs) = 3
       /\ reqs[3].endpoint = "/port/v1/positions"
       /\ Len(resps) = 3

\* C4: when the lookup finds the submitted order, createOrder returns an Order
\* of the internal entity model: id equal to the submitted order id, and type,
\* order_type, status, price and quantity under their internal names.
C4_FoundOrderIsInternalOrder ==
    (/\ op = "createOrder"
     /\ pc = "done"
     /\ Len(resps) = 2
     /\ Ok2xx(resps[2])
     /\ "OrderId" \in DOMAIN resps[2].body
     /\ resps[2].body.OrderId = resps[1].body.OrderId)
    => /\ result.kind = "resolved"
       /\ {"id", "type", "order_type", "status", "price", "quantity"}
             \subseteq DOMAIN result.value
       /\ result.value.id = resps[1].body.OrderId
       /\ result.value.type \in {"buy", "sell"}
       /\ result.value.order_type \in {"market", "limit", "stop", "stop_limit"}
       /\ result.value.status \in {"filled", "working", "parked"}

ValidationMessages ==
    {"Stop orders require a stop limit price",
     "Market orders cannot have a price or stop limit",
     "Limit orders require a price",
     "Invalid order type"}

\* the call was refused by validation, before any request
ValidationRejected ==
    /\ pc = "done"
    /\ reqs = <<>>
    /\ resps = <<>>
    /\ result.kind = "rejected"
    /\ result.error.msg \in ValidationMessages

\* the table of the specification, a price or stop limit being present when
\* it is a number, 0 included
TableViolated(a) ==
    \/ a.order_type = "stop" /\ a.stop_limit = None
    \/ a.order_type = "market" /\ (a.price # None \/ a.stop_limit # None)
    \/ a.order_type \in {"limit", "stop_limit"} /\ a.price = None
    \/ a.order_type \notin {"market", "limit", "stop", "stop_limit"}

\* C5 as stated: for every orderType and every price and stopLimit that is
\* absent or a number, 0 included, createOrder is refused by validation, with
\* no request issued, iff one of the four table conditions holds.
C5_ValidationMatchesTable ==
    op = "createOrder" => (TableViolated(args) <=> ValidationRejected)

\* a price or stop limit that is given and is not 0
GivenNonZero(n) == n # None /\ n # Some(0)

TableViolatedZeroAbsent(a) ==
    \/ a.order_type = "stop" /\ ~GivenNonZero(a.stop_limit)
    \/ a.order_type = "market" /\ (GivenNonZero(a.price) \/ GivenNonZero(a.stop_limit))
    \/ a.order_type \in {"limit", "stop_limit"} /\ ~GivenNonZero(a.price)
    \/ a.order_type \notin {"market", "limit", "stop", "stop_limit"}

\* C5 amended: with a price or stop limit of 0 counted as absent, createOrder
\* is refused by validation, with a ValidationError and no request issued, iff
\* one of the four table conditions holds; otherwise the order-creation POST
\* is its first request.
C5_ValidationMatchesTableZeroAbsent ==
    op = "createOrder" =>
        /\ TableViolatedZeroAbsent(args) <=> ValidationRejected
        /\ ~TableViolatedZeroAbsent(args) =>
              (Len(reqs) >= 1 /\ reqs[1].method = "POST")

C5_Witness ==
    /\ op = "createOrder"
    /\ args.order_type = "limit"
    /\ args.price = Some(0)
    /\ ValidationRejected

\* C6: when the order-creation response, after error classification, carries
\* no order identifier, createOrder rejects, with the submission failure when
\* the body was parsed and is no error payload, and issues no request after
\* the POST: neither the lookup nor the positions fetch.
C6_NoOrderIdRejectsWithoutReconciliation ==
    (/\ op = "createOrder"
     /\ Len(resps) >= 1
     /\ ~Accepted(resps[1]))
    => /\ pc = "done"
       /\ result.kind = "rejected"
       /\ Len(resps) = 1
       /\ Len(reqs) = 1
       /\ reqs[1].method = "POST"
       /\ (Parsed(resps[1]) /\ ~ErrorPayload(resps[1].body)
             => result.error.msg = "Failed to place order: No OrderId returned")

C6_Witness ==
    /\ op = "createOrder"
    /\ pc = "done"
    /\ resps = <<Http(TRUE, [OrderId |-> ""])>>
    /\ result.kind = "rejected"
    /\ Len(reqs) = 1

\* the order list was obtained and no record of it has the id
ListedWithout(r, id) ==
    /\ Ok2xx(r)
    /\ ~ErrorPayload(r.body)
    /\ "Data" \in DOMAIN r.body
    /\ \A i \in DOMAIN r.body.Data :
          ~("OrderId" \in DOMAIN r.body.Data[i] /\ r.body.Data[i].OrderId = id)

IsOrderNotFound(e) ==
    /\ "cause" \in DOMAIN e
    /\ e.cause.msg = "Order not found"

\* C7: modifyOrder for an id the provider's current order list does not
\* contain fails with the order-not-found failure for that id, and the call
\* issues no PATCH request.
C7_MissingOrderFailsWithoutPatch ==
    (/\ op = "modifyOrder"
     /\ Len(resps) >= 1
     /\ ListedWithout(resps[1], args.orderId))
    => /\ pc = "done"
       /\ result.kind = "rejected"
       /\ IsOrderNotFound(result.error)
       /\ result.error.cause.orderId = args.orderId
       /\ Len(resps) = 1
       /\ \A i \in DOMAIN reqs : reqs[i].method # "PATCH"

C7_Witness ==
    /\ op = "modifyOrder"
    /\ pc = "done"
    /\ args.orderId = "o1"
    /\ Len(resps) = 1
    /\ ListedWithout(resps[1], "o1")
    /\ Len(resps[1].body.Data) = 2
    /\ result.kind = "rejected"

\* C8: modifyOrder fails with the order-not-found failure only when the order
\* list was actually obtained and does not contain the target id; a list that
\* could not be fetched is reported as that fetch failure.
C8_OrderNotFoundOnlyWhenListObtained ==
    (/\ op = "modifyOrder"
     /\ pc = "done"
     /\ result.kind = "rejected"
     /\ IsOrderNotFound(result.error))
    => /\ Ok2xx(resps[1])
       /\ ~ErrorPayload(resps[1].body)
       /\ "Data" \in DOMAIN resps[1].body =>
             \A i \in DOMAIN resps[1].body.Data :
                 Field(resps[1].body.Data[i], "OrderId") # args.orderId

LenientReads ==
    {"getPositions", "getOrders", "getNetPositions", "getClosedPositions", "getExposure"}

\* a record of a Data list that the read's mapping cannot map
Unmappable(o, rec) ==
    CASE o = "getOrders" -> "BuySell" \notin DOMAIN rec
      [] o = "getNetPositions" ->
            ~({"NetPositionBase", "NetPositionView"} \subseteq DOMAIN rec)
      [] OTHER -> ~({"PositionBase", "PositionView"} \subseteq DOMAIN rec)

\* the read's fetch failed: network error, non-2xx, unparsable body, error
\* payload, or a record that cannot be mapped
FetchFailed(o, r) ==
    \/ ~Ok2xx(r)
    \/ ErrorPayload(r.body)
    \/ /\ o # "getExposure"
       /\ "Data" \in DOMAIN r.body
       /\ \E i \in DOMAIN r.body.Data : Unmappable(o, r.body.Data[i])

\* C9: getPositions, getOrders, getNetPositions and getClosedPositions resolve
\* to an empty list, and getExposure to an empty object, on every failure of
\* their fetch; once their request is issued they never reject.
C9_LenientReadsSwallowFailures ==
    (op \in LenientReads /\ reqs # <<>>)
    => /\ result.kind # "rejected"
       /\ (pc = "done" =>
             /\ result.kind = "resolved"
             /\ (FetchFailed(op, resps[1]) =>
                   IF op = "getExposure" THEN result.value = EmptyObject
                   ELSE result.value = <<>>))

C9_Witness ==
    /\ op = "getClosedPositions"
    /\ pc = "done"
    /\ resps = <<Http(FALSE, OtherBody)>>
    /\ result = Resolved(<<>>)

\* C10: whenever the balance request fails at transport level (network error
\* or non-2xx) or is answered with a classified error payload, getBalance
\* rejects.
C10_GetBalancePropagatesFailures ==
    (/\ op = "getBalance"
     /\ pc = "done"
     /\ \/ resps[1].net = "error"
        \/ ~resps[1].ok
        \/ (Parsed(resps[1]) /\ ErrorPayload(resps[1].body)))
    => result.kind = "rejected"

\* the methods of the requests that place, change or cancel something
WriteMethods == {"POST", "PATCH", "DELETE"}
\* a response with a status outside 2xx
NonSuccess(r) == r.net = "response" /\ ~r.ok
TradeOperations ==
    {"createOrder", "modifyOrder", "cancelOrder", "cancelAllOrders", "preCheckOrder"}

\* C11: in buy, sell, modifyOrder, cancelOrder, cancelAllOrders and
\* preCheckOrder, a non-2xx response to the operation's own POST, PATCH or
\* DELETE request makes the call reject, whatever the response's body is; the
\* call never resolves after such a response.
C11_NonSuccessRejects ==
    (/\ op \in TradeOperations
     /\ \E i \in 1..Len(resps) :
            reqs[i].method \in WriteMethods /\ NonSuccess(resps[i]))
    => result.kind = "rejected"

\* the call has received the provider's error payload {ErrorCode, Message,
\* ModelState} as the body of one of its responses
AnsweredWithErrorCode ==
    \E i \in 1..Len(resps) : Parsed(resps[i]) /\ resps[i].body = ErrorCodeBody

\* C12: every operation that consumes a provider response raises an ApiError
\* carrying code X and message M when one of its requests is answered with a
\* body {ErrorCode: X, Message: M, ModelState}.
C12_ErrorPayloadRaisesApiError ==
    (pc = "done" /\ AnsweredWithErrorCode)
    => /\ result.kind = "rejected"
       /\ Field(result.error, "code") = ErrorCodeBody.ErrorCode
       /\ Field(result.error, "message") = ErrorCodeBody.Message

\* the host is saxobank.com or one of its subdomains (over the hosts that
\* occur in the model)
OnLoginDomain(host) == host \in {"saxobank.com", "sim.saxobank.com"}
\* a request that carries the user's credentials
BearsCredentials(rq) == "body" \in DOMAIN rq /\ "field_password" \in DOMAIN rq.body
\* the authorization endpoint has answered a createClient with credentials
AuthorizeAnswered ==
    op = "createClient" /\ args.type = "account" /\ Len(resps) >= 1
    /\ resps[1].net = "response"

\* C13: authenticate posts the credentials only to a URL whose host is on the
\* saxobank.com domain; when the authorization response has no Location, or a
\* Location whose host is not on that domain (even if its path or query
\* contains the text saxobank.com), authenticate fails with UnexpectedRedirect
\* and issues no request bearing the credentials.
C13_CredentialsOnlyToLoginDomain ==
    /\ \A i \in 1..Len(reqs) :
          BearsCredentials(reqs[i]) => OnLoginDomain(reqs[i].url.host)
    /\ (/\ AuthorizeAnswered
        /\ \/ resps[1].location = None
           \/ ~OnLoginDomain(resps[1].location[1].host))
       => /\ result = Rejected([msg |-> "Unexpected redirect during authentication"])
          /\ \A i \in 1..Len(reqs) : ~BearsCredentials(reqs[i])

\* which request of the construction a request is
RequestKind(rq) ==
    IF BearsCredentials(rq) THEN "login"
    ELSE IF "cookie" \in DOMAIN rq THEN "redirect"
    ELSE IF rq.endpoint = "/authorize" THEN "authorize"
    ELSE IF rq.endpoint = "/token" THEN "token"
    ELSE "identity"

ConstructionOrder == <<"authorize", "login", "redirect", "token", "identity">>

\* the i-th step of authenticate has failed, read off the response to its
\* request: the fetch failed, or the response lacks what the step needs
\* (step 1: a Location mentioning the login domain; step 2: a Location;
\* step 3: a Location with a non-empty code; step 4: a 2xx JSON object)
StepFailed(i) ==
    \/ resps[i].net = "error"
    \/ i \in 1..3 /\ resps[i].location = None
    \/ i = 1 /\ ~UrlIncludesDomain(resps[i].location[1])
    \/ i = 3 /\ resps[i].location[1].code \in {None, Some("")}
    \/ i = 4 /\ (~resps[i].ok \/ resps[i].body \in {NotJson, Null})

\* C14: authenticate issues its requests in the order authorize GET, login
\* POST, redirect GET, token POST, each at most once and each only after the
\* previous one was answered; once a step has failed no later request is
\* issued, createClient rejects, the identity request is never made and no
\* client object exists.
C14_StepsInOrderAndFailureStops ==
    (op = "createClient" /\ args.type = "account")
    => /\ Len(reqs) <= Len(ConstructionOrder)
       /\ \A i \in 1..Len(reqs) : RequestKind(reqs[i]) = ConstructionOrder[i]
       /\ Len(resps) <= Len(reqs) /\ Len(reqs) <= Len(resps) + 1
       /\ \A i \in 1..Len(resps) :
            (i <= 4 /\ StepFailed(i))
            => /\ Len(reqs) = i
               /\ pc = "done"
               /\ result.kind = "rejected"

C14_Witness ==
    /\ op = "createClient"
    /\ args.type = "account"
    /\ Len(reqs) = 3
    /\ Len(resps) = 3
    /\ StepFailed(3)
    /\ result.kind = "rejected"

\* the post-login redirect GET of a createClient with credentials has been
\* answered
RedirectAnswered ==
    op = "createClient" /\ args.type = "account" /\ Len(resps) >= 3
    /\ resps[3].net = "response"

\* C15: when the response to the post-login redirect GET has no Location
\* header, or a Location without a code parameter, authentication fails with
\* NoAuthCode ("Failed to retrieve authorization code") and the token
\* endpoint is never called.
C15_MissingCodeFailsWithNoAuthCode ==
    (/\ RedirectAnswered
     /\ \/ resps[3].location = None
        \/ resps[3].location[1].code = None)
    => /\ result = Rejected([msg |-> "Failed to retrieve authorization code"])
       /\ \A i \in 1..Len(reqs) : RequestKind(reqs[i]) # "token"

\* C16: createClient with a token credential issues no authorize, login,
\* redirect or token request: its only request is one GET /port/v1/clients/me
\* bearing exactly the supplied token, and the client it resolves to has the
\* ClientId of that request's response as id and its ClientKey as key.
C16_TokenCredentialSkipsAuthentication ==
    (op = "createClient" /\ args.type = "token")
    => /\ Len(reqs) = 1
       /\ reqs[1].method = "GET"
       /\ reqs[1].endpoint = "/port/v1/clients/me"
       /\ reqs[1].token = args.token
       /\ result.kind = "resolved"
          => /\ result.value.id = Field(resps[1].body, "ClientId")
             /\ result.value.key = Field(resps[1].body, "ClientKey")

C16_Witness ==
    /\ op = "createClient"
    /\ args = [type |-> "token", token |-> "tok9"]
    /\ pc = "done"
    /\ result.kind = "resolved"
    /\ result.value.id = "C1"
    /\ result.value.key = "K1"

\* a defined, non-empty string
NonEmptyString(v) == v \notin {Undefined, ""}

\* C17: every client that createClient resolves to has a defined, non-empty
\* string as id, as key and as name, whatever the provider answered to the
\* identity request, a 2xx body without ClientId, ClientKey or Name included.
C17_ClientIdentityDefined ==
    (op = "createClient" /\ result.kind = "resolved")
    => /\ NonEmptyString(result.value.id)
       /\ NonEmptyString(result.value.key)
       /\ NonEmptyString(result.value.name)

\* the request names an account, in its query or in its body
NamesAccount(rq) ==
    \/ "query" \in DOMAIN rq /\ "AccountKey" \in DOMAIN rq.query
    \/ "body" \in DOMAIN rq /\ "AccountKey" \in DOMAIN rq.body
\* the account the request names is k
ScopedBy(rq, k) ==
    \/ "query" \in DOMAIN rq /\ "AccountKey" \in DOMAIN rq.query
       /\ rq.query.AccountKey = k
    \/ "body" \in DOMAIN rq /\ "AccountKey" \in DOMAIN rq.body
       /\ rq.body.AccountKey = k

\* C18: every request that an operation called on an Account issues
\* (getBalance, getPositions, getOrders, buy, sell, cancelOrder,
\* cancelAllOrders, modifyOrder) is scoped by that account's AccountKey, never
\* by another identifier of the account or by another account.  The
\* order-by-id lookup of buy and sell names no account and is left aside.
C18_AccountRequestsScopedByAccountKey ==
    account # NoValue
    => \A i \in 1..Len(reqs) :
          NamesAccount(reqs[i]) => ScopedBy(reqs[i], account.AccountKey)

OrderStatuses == {"filled", "working", "parked"}
InternalOrderTypes == {"market", "limit", "stop", "stop_limit"}
OrderSides == {"buy", "sell"}
\* the call is a getOrders that has resolved
OrdersReturned == op = "getOrders" /\ result.kind = "resolved"

Translated(v) ==
    CASE v = "Filled" -> "filled"
      [] v = "Working" -> "working"
      [] v = "Parked" -> "parked"
      [] v = "Market" -> "market"
      [] v = "Limit" -> "limit"
      [] v = "Stop" -> "stop"
      [] v = "StopLimit" -> "stop_limit"
      [] v = "Buy" -> "buy"
      [] v = "Sell" -> "sell"

PositionStatuses == {"open", "closed", "closing", "partial", "locked"}
PositionReads == {"getPositions", "getNetPositions", "getClosedPositions"}

\* C20: every Position returned by getPositions, getNetPositions and
\* getClosedPositions has status in {open, closed, closing, partial, locked},
\* and every Position returned by getClosedPositions has status closed.
C20_PositionStatusInRange ==
    (op \in PositionReads /\ result.kind = "resolved")
    => \A i \in DOMAIN result.value :
          /\ result.value[i].status \in PositionStatuses
          /\ op = "getClosedPositions" => result.value[i].status = "closed"

\* the order-by-id lookup, when it is answered with a record, is answered
\* with the submitted order at the submitted price
LookupTruthful ==
    (Len(resps) >= 2 /\ Ok2xx(resps[2]) /\ resps[2].body # Null)
    => /\ {"OrderId", "Price"} \subseteq DOMAIN resps[2].body
       /\ resps[2].body.OrderId = response.OrderId
       /\ resps[2].body.Price = args.price[1]

\* C21: an order submitted through buy or sell with price P has price P in
\* the Order the call returns (a later read of that order by its id reports
\* the price the provider holds for it).
C21_ReturnedOrderHasSubmittedPrice ==
    (/\ op = "createOrder"
     /\ pc = "done"
     /\ result.kind = "resolved"
     /\ args.price # None
     /\ ~IsPosition(result.value)
     /\ LookupTruthful)
    => /\ "price" \in DOMAIN result.value
       /\ result.value.price = args.price[1]

\* the Account objects getAccounts can build
AccountObjects == {MapAccount(acc) : acc \in RawAccounts \cup {[AccountId |-> "A2"]}}

\* C25: whenever getAccounts resolves, it resolves to an array of Account
\* objects, possibly empty: also after a transport failure of the accounts
\* request and after a response without a Data list.
C25_GetAccountsResolvesToArray ==
    (op = "getAccounts" /\ result.kind = "resolved")
    => /\ "value" \in DOMAIN result
       /\ result.value \in Seq(AccountObjects)

\* C24: when the provider's pre-check response carries ErrorInfo,
\* preCheckOrder resolves to a PreCheckResult whose errorInfo holds that
\* error code and message.
C24_PreCheckReportsErrorInfo ==
    (/\ op = "preCheckOrder"
     /\ pc = "done"
     /\ Ok2xx(resps[1])
     /\ "ErrorInfo" \in DOMAIN resps[1].body)
    => /\ result.kind = "resolved"
       /\ "errorInfo" \in DOMAIN result.value
       /\ result.value.errorInfo.errorCode = resps[1].body.ErrorInfo.ErrorCode
       /\ result.value.errorInfo.message = resps[1].body.ErrorInfo.Message

\* a createOrder call has built its order-creation request
OrderRequestBuilt == op = "createOrder" /\ reqs # <<>>

\* C26: the order-creation request contains AssetType, ExternalReference,
\* IsForceOpen, TrailingStopDistanceToMarket and TrailingStopStep if and only
\* if the caller supplied the option, with the supplied value; ManualOrder is
\* the caller's value when supplied and true otherwise; OrderDuration is
\* absent for market orders and otherwise the caller's duration when supplied
\* and GoodTillCancel when not.  (AssetType is in every request the code
\* builds, so the equivalence asks that it was supplied.)
C26_OptionalFieldsIffSupplied ==
    OrderRequestBuilt
    => LET b == reqs[1].body
           o == args.options
       IN  /\ o.assetType # None
           /\ b.AssetType = o.assetType[1]
           /\ b.ExternalReference = o.externalReference
           /\ b.IsForceOpen = o.isForceOpen
           /\ b.TrailingStopDistanceToMarket = o.trailingStopDistanceToMarket
           /\ b.TrailingStopStep = o.trailingStopStep
           /\ b.ManualOrder = (IF o.manualOrder # None THEN o.manualOrder[1] ELSE TRUE)
           /\ b.OrderDuration =
                 IF args.order_type = "market" THEN None
                 ELSE IF o.duration # None THEN o.duration
                 ELSE Some([DurationType |-> "GoodTillCancel"])

\* C26 (amended): AssetType is in every order-creation request, with the
\* caller's value when one was supplied and FxSpot otherwise;
\* ExternalReference, IsForceOpen, TrailingStopDistanceToMarket and
\* TrailingStopStep are in the request if and only if the caller supplied a
\* truthy value (a supplied "", false or 0 is left out); ManualOrder and
\* OrderDuration are as in the claim.
C26_OptionalFieldsIffTruthy ==
    OrderRequestBuilt
    => LET b == reqs[1].body
           o == args.options
           Text(opt) == IF opt \notin {None, Some("")} THEN opt ELSE None
           Flag(opt) == IF opt = Some(TRUE) THEN opt ELSE None
           Number(opt) == IF opt \notin {None, Some(0)} THEN opt ELSE None
       IN  /\ b.AssetType = (IF Text(o.assetType) # None THEN o.assetType[1]
                             ELSE "FxSpot")
           /\ b.ExternalReference = Text(o.externalReference)
           /\ b.IsForceOpen = Flag(o.isForceOpen)
           /\ b.TrailingStopDistanceToMarket = Number(o.trailingStopDistanceToMarket)
           /\ b.TrailingStopStep = Number(o.trailingStopStep)
           /\ b.ManualOrder = (IF o.manualOrder # None THEN o.manualOrder[1] ELSE TRUE)
           /\ b.OrderDuration =
                 IF args.order_type = "market" THEN None
                 ELSE IF o.duration # None THEN o.duration
                 ELSE Some([DurationType |-> "GoodTillCancel"])

C26_Witness ==
    /\ OrderRequestBuilt
    /\ args.order_type = "limit"
    /\ args.options.trailingStopStep = Some(0)
    /\ args.options.assetType = Some("Stock")
    /\ reqs[1].body.TrailingStopStep = None
    /\ reqs[1].body.AssetType = "Stock"
    /\ reqs[1].body.OrderDuration = args.options.duration

\* a modifyOrder call has sent its PATCH
PatchSent == op = "modifyOrder" /\ Len(reqs) >= 2

\* C27: the PATCH of modifyOrder carries the target order's type context as
\* learned from the order list: its OrderType is the provider's value of the
\* listed order's order_type, for every value a listed order can have
\* (unrecognized values passed through by the normalization included), and
\* its AssetType and Uic are those of the listed order.
C27_PatchCarriesTypeContext ==
    PatchSent
    => /\ reqs[2].body.OrderType = currentOrder.INTERNAL.OpenOrderType
       /\ reqs[2].body.AssetType = currentOrder.INTERNAL.AssetType
       /\ reqs[2].body.Uic = currentOrder.INTERNAL.Uic

\* C30: modifyOrder changes only what the caller supplied: its PATCH has
\* OrderPrice exactly when a price argument was given (0 included) and Amount
\* exactly when a quantity argument was given, each with the given value, and
\* it sets no other attribute of the order to a new value; in particular the
\* duration it states is the order's own.
C30_PatchChangesOnlyWhatWasSupplied ==
    PatchSent
    => /\ reqs[2].body.OrderPrice = args.price
       /\ reqs[2].body.Amount = args.quantity
       /\ reqs[2].body.OrderDuration = currentOrder.INTERNAL.Duration

\* the method and the path of a request
Wire(rq) == <<rq.method, rq.endpoint>>

\* the requests sent so far are some of `allowed`, each at most once, in the
\* order of `allowed`
AtMostOnceInOrder(allowed) ==
    \E f \in [1..Len(reqs) -> 1..Len(allowed)] :
        /\ \A i \in 1..Len(reqs) : Wire(reqs[i]) = allowed[f[i]]
        /\ \A i, j \in 1..Len(reqs) : i < j => f[i] < f[j]

\* C28: no operation retries.  createOrder sends at most one POST, then at
\* most one order-by-id GET, then at most one positions GET, in that order;
\* modifyOrder sends at most one order-list GET, then at most one PATCH;
\* cancelOrder and cancelAllOrders send exactly one DELETE and nothing else.
\* No request follows an unanswered one, so a failed request is not sent again.
C28_NoRetries ==
    /\ op = "createOrder"
       => AtMostOnceInOrder(<<<<"POST", "/trade/v2/orders">>,
                              <<"GET", "/trade/v2/orders">>,
                              <<"GET", "/port/v1/positions">>>>)
    /\ op = "modifyOrder"
       => AtMostOnceInOrder(<<<<"GET", "/port/v1/orders">>,
                              <<"PATCH", "/trade/v2/orders">>>>)
    /\ op \in {"cancelOrder", "cancelAllOrders"}
       => Len(reqs) = 1 /\ Wire(reqs[1]) = <<"DELETE", "/trade/v2/orders">>
    /\ op \in {"createOrder", "modifyOrder", "cancelOrder", "cancelAllOrders"}
       => Len(reqs) - Len(resps) \in {0, 1}

\* createOrder has settled after its order-by-id lookup failed and its
\* positions fetch failed as well, having sent three requests
C28_Witness ==
    /\ op = "createOrder" /\ pc = "done" /\ Len(reqs) = 3
    /\ RequestThrows(resps[2]) /\ RequestThrows(resps[3])

\* C29 (as claimed): whatever happens at the provider while modifyOrder runs,
\* the step of modifyOrder that sends the PATCH for order X is taken only
\* while X is among the provider's open orders.
C29_PatchOnlyWhileOpen ==
    [][(pc = "modifyOrder.orders" /\ pc' = "modifyOrder.patch")
       => args.orderId \in OpenIds(provider)]_vars

\* C29 (amended): modifyOrder sends its PATCH for order X only if X is in
\* the order list its own lookup received; the PATCH names X.  Whether X is
\* still open at the provider when the PATCH is sent is not checked.
C29_PatchOnlyForListedOrder ==
    PatchSent
    => /\ reqs[2].body.OrderId = args.orderId
       /\ \E i \in DOMAIN resps[1].body.Data :
            resps[1].body.Data[i].OrderId = args.orderId

\* the PATCH for X is out, the lookup's exchange is not closed yet, and X,
\* which the lookup's answer listed, has left the provider's open orders
C29_Witness ==
    /\ PatchSent
    /\ inflight # NoValue /\ inflight.for = 1
    /\ args.orderId \in provider.gone

\* getOrders has settled and the exchange that answered it is still at hand
OrdersJustRead ==
    /\ op = "getOrders" /\ pc = "done"
    /\ inflight # NoValue /\ inflight.for = 1

ReadOperations ==
    {"getAccounts", "getPositions", "getOrders", "getNetPositions",
     "getClosedPositions", "getExposure", "getBalance"}

\* the settlement of read operation o as a function of the one transport
\* outcome r of the call
ReadResult(o, r) ==
    CASE o = "getAccounts" -> GetAccountsResult(r)
      [] o = "getPositions" -> GetPositions(r)
      [] o = "getOrders" -> GetOrders(r)
      [] o = "getNetPositions" -> GetNetPositions(r)
      [] o = "getClosedPositions" -> GetClosedPositions(r)
      [] o = "getExposure" -> GetExposure(r)
      [] o = "getBalance" -> GetBalanceResult(r)

\* a call of a read operation has issued exactly one request, and once
\* settled it has received exactly one response, of which its result is a
\* function
OneRequestOneResult ==
    /\ Len(reqs) = 1
    /\ reqs[1].method = "GET"
    /\ pc = "done" => Len(resps) = 1 /\ result = ReadResult(op, resps[1])
    /\ pc # "done" => resps = <<>> /\ result = Pending

\* getClosedPositions was called with a date that cannot be formatted
DateUnformattable ==
    /\ op = "getClosedPositions"
    /\ ToISOStringThrows(args.fromDate) \/ ToISOStringThrows(args.toDate)

====
